---------------------------- MODULE Spec2Model ----------------------------
(***************************************************************************)
(* Model of the FeatureFence playground server (server.js): the            *)
(* POST /api/lint handler, its normalizer toItems, and the ESLint          *)
(* configuration it passes to the analyzer (eslint.config.mjs).            *)
(*                                                                         *)
(* JavaScript values are tagged records; strings are tuples of one-        *)
(* character strings so that trim() and toLowerCase() are computed         *)
(* character by character.  Node runs a handler to its first await without *)
(* interruption, so one action covers the synchronous part of the handler  *)
(* (lines 198-210) and another its continuation after `await lintText`.    *)
(***************************************************************************)
EXTENDS Integers, Sequences, FiniteSets, TLC

VARIABLES
    eslintOutcome,  \* what lintText settles to for each source text, under
                    \* the fixed configuration and compatibility data
    requests        \* the requests received so far, in arrival order

vars == <<eslintOutcome, requests>>

(* ------------------------------ bounds -------------------------------- *)
MaxRequests == 2    \* requests received in one behaviour
MaxMsgs == 2        \* messages in one ESLint result

(* -------------------------- JavaScript values -------------------------- *)
JsUndefined == [type |-> "undefined"]
JsNull == [type |-> "null"]
Str(s) == [type |-> "string", str |-> s]
Num(n) == [type |-> "number", num |-> n]

IsString(v) == v.type = "string"

\* ToBoolean: undefined, null, "", 0 are falsy.
Truthy(v) ==
    CASE v.type = "undefined" -> FALSE
      [] v.type = "null" -> FALSE
      [] v.type = "string" -> v.str # <<>>
      [] v.type = "number" -> v.num # 0
      [] OTHER -> TRUE

Digits == <<"0", "1", "2", "3", "4", "5", "6", "7", "8", "9">>

\* String(v) for the primitive values a JSON body can carry.
JsString(v) ==
    CASE v.type = "string" -> v.str
      [] v.type = "number" -> <<Digits[v.num + 1]>>
      [] v.type = "null" -> <<"n", "u", "l", "l">>
      [] OTHER -> <<"u", "n", "d", "e", "f", "i", "n", "e", "d">>

WhiteSpace == {" ", "\t", "\n"}

RECURSIVE TrimStart(_)
TrimStart(s) ==
    IF s # <<>> /\ Head(s) \in WhiteSpace THEN TrimStart(Tail(s)) ELSE s

RECURSIVE TrimEnd(_)
TrimEnd(s) ==
    IF s # <<>> /\ s[Len(s)] \in WhiteSpace
    THEN TrimEnd(SubSeq(s, 1, Len(s) - 1))
    ELSE s

\* String.prototype.trim
Trim(s) == TrimEnd(TrimStart(s))

Upper == <<"A", "B", "C", "D", "E", "F", "G", "H", "I", "J", "K", "L", "M",
           "N", "O", "P", "Q", "R", "S", "T", "U", "V", "W", "X", "Y", "Z">>
Lower == <<"a", "b", "c", "d", "e", "f", "g", "h", "i", "j", "k", "l", "m",
           "n", "o", "p", "q", "r", "s", "t", "u", "v", "w", "x", "y", "z">>

LowerChar(c) ==
    IF \E i \in DOMAIN Upper : Upper[i] = c
    THEN Lower[CHOOSE i \in DOMAIN Upper : Upper[i] = c]
    ELSE c

ToLowerCaseKeep(s) == s

\* String.prototype.toLowerCase
ToLowerCase(s) == [i \in DOMAIN s |-> LowerChar(s[i])]

(* ----------------------------- configuration --------------------------- *)
\* eslint.config.mjs: the targets option of featurefence/no-unsupported-feature
ConfigTargets == <<">=0.5%", "last 2 versions", "not dead">>

\* the exported config array; its first element is what the handler passes
config == <<[ecmaVersion |-> "2022", sourceType |-> "module",
             rule |-> "featurefence/no-unsupported-feature",
             level |-> "warn", mode |-> "baseline-or-targets",
             targets |-> ConfigTargets]>>

JAVASCRIPT == <<"j", "a", "v", "a", "s", "c", "r", "i", "p", "t">>
JS == <<"j", "s">>

(* ------------------------------ toItems -------------------------------- *)
RECURSIVE CountSev(_, _)
CountSev(messages, want) ==
    IF messages = <<>> THEN 0
    ELSE (IF (Head(messages).severity = 2) = want THEN 1 ELSE 0)
         + CountSev(Tail(messages), want)

\* messages.filter(m => m.severity === 2).length
ErrorCount(messages) == CountSev(messages, TRUE)

WarnCountOnlyOnes(messages) ==
    Len(SelectSeq(messages, LAMBDA m : m.severity = 1))

\* messages.filter(m => m.severity !== 2).length
WarnCount(messages) == CountSev(messages, FALSE)

LevelWarnFirst(errorCount, warnCount) ==
    IF warnCount # 0 THEN "warn" ELSE IF errorCount # 0 THEN "error" ELSE "ok"

\* errorCount ? "error" : (warnCount ? "warn" : "ok")
Level(errorCount, warnCount) ==
    IF errorCount # 0 THEN "error" ELSE IF warnCount # 0 THEN "warn" ELSE "ok"

\* the object each message is mapped to
Item(m) ==
    [rule |-> IF m.ruleId = "" THEN "(no-rule)" ELSE m.ruleId,
     message |-> m.message,
     severity |-> IF m.severity = 2 THEN "error" ELSE "warn",
     location |-> [line |-> m.line, column |-> m.column,
                   endLine |-> m.endLine, endColumn |-> m.endColumn]]

\* eslintResults?.[0]?.messages || []
MessagesOf(eslintResults) ==
    IF eslintResults = <<>> THEN <<>>
    ELSE IF "messages" \in DOMAIN eslintResults[1]
         THEN eslintResults[1].messages
         ELSE <<>>

RECURSIVE ItemsSoFar(_)
ItemsSoFar(n) ==
    IF n = 0 THEN <<>>
    ELSE ItemsSoFar(n - 1)
         \o (IF requests[n].pc = "completed" /\ requests[n].eslint # <<>>
             THEN requests[n].responses[1].body.items
             ELSE <<>>)

toItemsAccum(eslintResults) ==
    LET messages == MessagesOf(eslintResults)
        errorCount == ErrorCount(messages)
        warnCount == WarnCount(messages)
    IN [summary |-> [level |-> Level(errorCount, warnCount),
                     errors |-> errorCount,
                     warnings |-> warnCount,
                     total |-> Len(messages)],
        items |-> ItemsSoFar(Len(requests))
                  \o [i \in DOMAIN messages |-> Item(messages[i])]]

toItems(eslintResults) ==
    LET messages == MessagesOf(eslintResults)
        errorCount == ErrorCount(messages)
        warnCount == WarnCount(messages)
    IN [summary |-> [level |-> Level(errorCount, warnCount),
                     errors |-> errorCount,
                     warnings |-> warnCount,
                     total |-> Len(messages)],
        items |-> [i \in DOMAIN messages |-> Item(messages[i])]]

(* --------------------------- the analyzer ------------------------------ *)
RuleId == "featurefence/no-unsupported-feature"

\* a lint message as ESLint reports it; a parse error has no ruleId
Message(ruleId, severity) ==
    [ruleId |-> ruleId, message |-> "m", severity |-> severity,
     line |-> 1, column |-> 1, endLine |-> 1, endColumn |-> 2]

Messages == {Message(RuleId, 1), Message("", 2), Message(RuleId, 0)}

MsgSeqs == UNION {[1..n -> Messages] : n \in 0..MaxMsgs}

Exceptions == {[name |-> "Error", message |-> "Cannot find module"],
               [name |-> "TypeError", message |-> ""]}

Thrown(e) == [kind |-> "throw", e |-> e, results |-> <<>>]
Returned(results) ==
    [kind |-> "results", e |-> [name |-> "", message |-> ""],
     results |-> results]

\* everything `await eslint.lintText(...)` can settle to
Outcomes ==
    {Thrown(e) : e \in Exceptions}
    \cup {Returned(<<>>), Returned(<<[filePath |-> "input.js"]>>)}
    \cup {Returned(<<[filePath |-> "input.js", messages |-> ms]>>) :
             ms \in MsgSeqs}

LeanOutcomes ==
    {Thrown(e) : e \in Exceptions}
    \cup {Returned(<<[filePath |-> "input.js", messages |-> ms]>>) :
             ms \in {<<>>, <<Message(RuleId, 1)>>, <<Message("", 2)>>}}

\* eslint.lintText(code, {filePath: "input.js"}); blank text has no findings
lintText(code) ==
    IF code \in DOMAIN eslintOutcome
    THEN eslintOutcome[code]
    ELSE Returned(<<[filePath |-> "input.js", messages |-> <<>>]>>)

\* new ESLint({overrideConfig: Array.isArray(config) ? config[0] : config})
NewESLint == [overrideConfig |-> config[1]]

(* --------------------------- request bodies ---------------------------- *)
Languages ==
    {JsUndefined, JsNull, Str(<<>>), Num(5),
     Str(JS), Str(<<"J", "S">>), Str(<<"J", "s">>),
     Str(JAVASCRIPT),
     Str(<<"J", "a", "v", "a", "S", "c", "r", "i", "p", "t">>),
     Str(<<"c", "s", "s">>), Str(<<"C", "S", "S">>),
     Str(<<"b", "r", "a", "i", "n", "f", "u", "c", "k">>)}

Codes ==
    {JsUndefined, Num(7), Str(<<>>), Str(<<" ">>), Str(<<"\n", " ", "\t">>),
     Str(<<"a">>), Str(<<" ", "b", "\n">>)}

TargetStrings ==
    {JsUndefined, Str(<<>>), Str(<<"c", "h", "r", "o", "m", "e", " ", "5", "0">>)}

Bodies == [language : Languages, code : Codes, targets : TargetStrings]

LeanBodies ==
    [language : {JsUndefined, Str(<<"J", "S">>), Str(<<"c", "s", "s">>)},
     code : {Str(<<" ">>), Str(<<"a">>), Str(<<" ", "b", "\n">>)},
     targets : {JsUndefined,
                Str(<<"c", "h", "r", "o", "m", "e", " ", "5", "0">>)}]

FairBodies ==
    [language : {Str(<<"J", "S">>), Str(<<"c", "s", "s">>)},
     code : {Str(<<" ">>), Str(<<"a">>), Str(<<" ", "b", "\n">>)},
     targets : {JsUndefined}]

(* ------------------------- POST /api/lint ------------------------------ *)
ValidCodeNoTrim(code) == IsString(code) /\ code.str # <<>>

\* the negation of: typeof code !== "string" || !code.trim()
ValidCode(code) == IsString(code) /\ Trim(code.str) # <<>>

\* String(language || "javascript").toLowerCase()
ResolveLang(language) ==
    ToLowerCase(JsString(IF Truthy(language) THEN language
                         ELSE Str(JAVASCRIPT)))

\* lang === "javascript" || lang === "js"
IsJavaScript(lang) == lang = JAVASCRIPT \/ lang = JS

\* res.status(400).json({ error: "Missing 'code' (string)" })
BadRequest == [status |-> 400, body |-> [error |-> <<"Missing 'code' (string)">>]]

UnsupportedAsError(lang) ==
    [status |-> 200,
     body |-> [ok |-> TRUE, language |-> lang,
               summary |-> [level |-> "error", errors |-> 1, warnings |-> 0,
                            total |-> 1],
               items |-> <<[rule |-> "unsupported-language",
                            message |-> <<"Language '", lang,
                                         "' is not yet supported by this server. Use 'javascript' to see ESLint-based results.">>,
                            severity |-> "error",
                            location |-> [line |-> 1, column |-> 1]]>>]]

\* the placeholder response for other languages
Unsupported(lang) ==
    [status |-> 200,
     body |-> [ok |-> TRUE, language |-> lang,
               summary |-> [level |-> "warn", errors |-> 0, warnings |-> 1,
                            total |-> 1],
               items |-> <<[rule |-> "unsupported-language",
                            message |-> <<"Language '", lang,
                                         "' is not yet supported by this server. Use 'javascript' to see ESLint-based results.">>,
                            severity |-> "warn",
                            location |-> [line |-> 1, column |-> 1]]>>]]

\* res.json({ ok: true, language: lang, summary, items })
LintResponse(lang, report) ==
    [status |-> 200,
     body |-> [ok |-> TRUE, language |-> lang,
               summary |-> report.summary, items |-> report.items]]

\* String(e) for an Error: name, then ": " and the message when there is one
ErrorToString(e) ==
    IF e.message = "" THEN <<e.name>> ELSE <<e.name, ": ", e.message>>

\* res.status(500).json({ error: String(e) })
ServerError(e) == [status |-> 500, body |-> [error |-> ErrorToString(e)]]

\* the handler from its entry to its first await, or to its response
HandleSync(body) ==
    IF ~ValidCode(body.code)
    THEN [body |-> body, pc |-> "failed",
          trace |-> <<"validating", "failed">>,
          lang |-> <<>>, eslint |-> <<>>, linted |-> JsUndefined,
          responses |-> <<BadRequest>>]
    ELSE LET lang == ResolveLang(body.language)
         IN IF IsJavaScript(lang)
            THEN [body |-> body, pc |-> "analyzing",
                  trace |-> <<"validating", "resolving", "analyzing">>,
                  lang |-> lang, eslint |-> <<NewESLint>>,
                  linted |-> body.code, responses |-> <<>>]
            ELSE [body |-> body, pc |-> "completed",
                  trace |-> <<"validating", "resolving", "completed">>,
                  lang |-> lang, eslint |-> <<>>, linted |-> JsUndefined,
                  responses |-> <<Unsupported(lang)>>]

\* the continuation after `await eslint.lintText` resolved
Continue(req, results) ==
    [req EXCEPT !.pc = "completed",
                !.trace = @ \o <<"normalizing", "completed">>,
                !.responses = Append(@, LintResponse(req.lang, toItems(results)))]

CatchNoResponse(req, e) ==
    [req EXCEPT !.pc = "failed", !.trace = Append(@, "failed")]

\* the catch block after `await eslint.lintText` rejected
Catch(req, e) ==
    [req EXCEPT !.pc = "failed",
                !.trace = Append(@, "failed"),
                !.responses = Append(@, ServerError(e))]

SettlementShared(i) == lintText(requests[Len(requests)].linted)

\* what request i's await settles to: the promise made from its own `code`
\* by its own ESLint instance
Settlement(i) == lintText(requests[i].linted)

(* ------------------------------ actions -------------------------------- *)
ValidCodes == {c \in Codes : ValidCode(c)}

Init ==
    /\ eslintOutcome \in [ValidCodes -> Outcomes]
    /\ requests = <<>>

InitLean ==
    /\ eslintOutcome \in [ValidCodes -> LeanOutcomes]
    /\ requests = <<>>

\* a request arrives and the handler runs up to its await or its response
Receive(body) ==
    /\ requests' = Append(requests, HandleSync(body))
    /\ UNCHANGED eslintOutcome

\* lintText resolved for request i
LintResolves(i) ==
    /\ i \in DOMAIN requests
    /\ requests[i].pc = "analyzing"
    /\ Settlement(i).kind = "results"
    /\ requests' = [requests EXCEPT ![i] = Continue(@, Settlement(i).results)]
    /\ UNCHANGED eslintOutcome

\* lintText rejected for request i
LintRejects(i) ==
    /\ i \in DOMAIN requests
    /\ requests[i].pc = "analyzing"
    /\ Settlement(i).kind = "throw"
    /\ requests' = [requests EXCEPT ![i] = Catch(@, Settlement(i).e)]
    /\ UNCHANGED eslintOutcome

\* one request, any body, any analyzer behaviour
Next ==
    \/ requests = <<>> /\ \E body \in Bodies : Receive(body)
    \/ \E i \in DOMAIN requests : LintResolves(i)
    \/ \E i \in DOMAIN requests : LintRejects(i)

Spec == Init /\ [][Next]_vars

\* several requests, in flight together
NextConc ==
    \/ Len(requests) < MaxRequests /\ \E body \in LeanBodies : Receive(body)
    \/ \E i \in DOMAIN requests : LintResolves(i)
    \/ \E i \in DOMAIN requests : LintRejects(i)

SpecConc == InitLean /\ [][NextConc]_vars

InitFair ==
    /\ eslintOutcome \in
         [ValidCodes ->
            {Thrown([name |-> "TypeError", message |-> ""]),
             Returned(<<[filePath |-> "input.js",
                         messages |-> <<Message(RuleId, 1)>>]>>)}]
    /\ requests = <<>>

NextFair ==
    \/ Len(requests) < MaxRequests /\ \E body \in FairBodies : Receive(body)
    \/ \E i \in DOMAIN requests : LintResolves(i)
    \/ \E i \in DOMAIN requests : LintRejects(i)

\* the analyzer call of every request returns or throws
SpecFair ==
    /\ InitFair
    /\ [][NextFair]_vars
    /\ \A i \in 1..MaxRequests :
          WF_vars(LintResolves(i)) /\ WF_vars(LintRejects(i))

(* ------------------------------ properties ----------------------------- *)
Terminal == {"completed", "failed"}

Responded(i) == requests[i].responses # <<>>
Analyzed(i) == requests[i].eslint # <<>>

\* code is absent, not a string, empty or made of whitespace only
Blank(code) ==
    code.type # "string" \/ \A k \in DOMAIN code.str : code.str[k] \in WhiteSpace

\* s is id up to the case of its letters
CaseVariant(s, id) ==
    /\ Len(s) = Len(id)
    /\ \A k \in DOMAIN s :
          s[k] = id[k] \/ \E u \in DOMAIN Upper : Lower[u] = id[k] /\ Upper[u] = s[k]

AbsentLanguage(l) ==
    l.type \in {"undefined", "null"} \/ l = Str(<<>>) \/ l = Num(0)

RegisteredAs(l, id) == l.type = "string" /\ CaseVariant(l.str, id)

Registered(l) ==
    AbsentLanguage(l) \/ RegisteredAs(l, JAVASCRIPT) \/ RegisteredAs(l, JS)

\* C1: in every 200 response of POST /api/lint, summary.total equals
\* summary.errors + summary.warnings and equals the number of items.
C1_SummaryCounts ==
    \A i \in DOMAIN requests : \A k \in DOMAIN requests[i].responses :
        LET r == requests[i].responses[k]
        IN r.status = 200 =>
             /\ r.body.summary.total = r.body.summary.errors + r.body.summary.warnings
             /\ r.body.summary.total = Len(r.body.items)

C1_Witness ==
    \E i \in DOMAIN requests :
        /\ Analyzed(i) /\ Responded(i)
        /\ requests[i].responses[1].status = 200
        /\ requests[i].responses[1].body.summary.errors = 1
        /\ \E k \in DOMAIN MessagesOf(Settlement(i).results) :
              MessagesOf(Settlement(i).results)[k].severity = 0

\* C2: in every report returned, summary.level is "error" when errors > 0,
\* else "warn" when warnings > 0, else "ok"; an empty or missing analyzer
\* result gives level "ok" and no items.
C2_Level ==
    \A i \in DOMAIN requests : \A k \in DOMAIN requests[i].responses :
        LET r == requests[i].responses[k]
        IN r.status = 200 =>
             /\ r.body.summary.level =
                  (IF r.body.summary.errors > 0 THEN "error"
                   ELSE IF r.body.summary.warnings > 0 THEN "warn" ELSE "ok")
             /\ (Analyzed(i) /\ MessagesOf(Settlement(i).results) = <<>>)
                  => r.body.summary.level = "ok" /\ r.body.items = <<>>

C2_Witness ==
    \E i \in DOMAIN requests :
        /\ Analyzed(i) /\ Responded(i)
        /\ requests[i].responses[1].status = 200
        /\ requests[i].responses[1].body.summary.errors > 0
        /\ requests[i].responses[1].body.summary.warnings > 0
        /\ requests[i].responses[1].body.summary.level = "error"

\* C3: a request whose code is absent, not a string, empty or whitespace-only
\* gets one response, status 400 with only an error field, and no analyzer is
\* created or invoked for it, whatever its language and targets.
C3_InvalidInput ==
    \A i \in DOMAIN requests :
        Blank(requests[i].body.code) =>
          /\ requests[i].pc = "failed"
          /\ Len(requests[i].responses) = 1
          /\ requests[i].responses[1].status = 400
          /\ DOMAIN requests[i].responses[1].body = {"error"}
          /\ ~Analyzed(i)
          /\ requests[i].linted = JsUndefined

C3_Witness ==
    \E i \in DOMAIN requests :
        /\ requests[i].body.code = Str(<<"\n", " ", "\t">>)
        /\ requests[i].body.language = Str(JS)
        /\ requests[i].responses = <<BadRequest>>

C5_GenericFailure ==
    \A i, j \in DOMAIN requests :
        (/\ Responded(i) /\ Responded(j)
         /\ requests[i].responses[1].status = 500
         /\ requests[j].responses[1].status = 500)
        => requests[i].responses[1] = requests[j].responses[1]

\* C6: the analyzer is invoked with the default support matrix exactly when
\* the request's targets string is empty or omitted.
C6_TargetsResolved ==
    \A i \in DOMAIN requests :
        Analyzed(i) =>
          (requests[i].eslint[1].overrideConfig.targets = ConfigTargets
             <=> requests[i].body.targets \in {JsUndefined, Str(<<>>)})

RunAlone(body) ==
    LET r == HandleSync(body)
    IN IF r.pc # "analyzing" THEN r
       ELSE IF lintText(r.linted).kind = "results"
            THEN Continue(r, lintText(r.linted).results)
            ELSE Catch(r, lintText(r.linted).e)

\* C8: whatever the interleaving of the in-flight analyzer calls, every
\* request gets the response it would get when run alone.
C8_Independent ==
    \A i \in DOMAIN requests :
        Responded(i) => requests[i].responses = RunAlone(requests[i].body).responses

C8_Witness ==
    \E i, j \in DOMAIN requests :
        /\ i < j
        /\ requests[i].pc = "analyzing"
        /\ Analyzed(j) /\ Responded(j)
        /\ requests[i].linted # requests[j].linted
        /\ lintText(requests[i].linted) # lintText(requests[j].linted)

\* the steps of the gateway state machine; a request for a language without
\* analyzer has nothing to analyze or normalize and completes from resolving
Steps ==
    {<<"validating", "resolving">>, <<"resolving", "analyzing">>,
     <<"analyzing", "normalizing">>, <<"normalizing", "completed">>,
     <<"resolving", "completed">>,
     <<"validating", "failed">>, <<"analyzing", "failed">>}

LegalTrace(i) ==
    LET t == requests[i].trace
    IN /\ t[1] = "validating"
       /\ t[Len(t)] = requests[i].pc
       /\ \A k \in 1..(Len(t) - 1) :
             /\ <<t[k], t[k + 1]>> \in Steps
             /\ (t[k + 1] = "failed" /\ t[k] # "validating")
                  => Settlement(i).kind = "throw"

OneResponse(i) ==
    IF requests[i].pc \in Terminal
    THEN Len(requests[i].responses) = 1
    ELSE requests[i].responses = <<>>

C10_LanguageResolution ==
    \A i \in DOMAIN requests :
        LET l == requests[i].body.language
        IN ~Blank(requests[i].body.code) =>
             /\ Registered(l) => Analyzed(i)
             /\ \A k \in DOMAIN requests[i].responses :
                   LET r == requests[i].responses[k]
                   IN r.status = 200 =>
                        /\ \A c \in DOMAIN r.body.language :
                              \A u \in DOMAIN Upper : r.body.language[c] # Upper[u]
                        /\ l.type = "string" /\ l.str # <<>>
                             => CaseVariant(l.str, r.body.language)
                        /\ AbsentLanguage(l) => r.body.language = JAVASCRIPT

C10_Witness ==
    \E i \in DOMAIN requests :
        /\ requests[i].body.language =
             Str(<<"J", "a", "v", "a", "S", "c", "r", "i", "p", "t">>)
        /\ Responded(i)
        /\ requests[i].responses[1].status = 200
        /\ requests[i].responses[1].body.language = JAVASCRIPT

=============================================================================
